---- MODULE Spec2Model ----
(***************************************************************************)
(* The object attribute and delegation model exercised by the JavaScript   *)
(* notes of this repository (objectOrientedJS / object patterns).          *)
(*                                                                         *)
(* The sources build objects with literals, constructors and               *)
(* Object.defineProperty / Object.defineProperties, lock them with         *)
(* Object.preventExtensions / Object.seal / Object.freeze, read and assign *)
(* properties through the prototype chain, delete properties and copy      *)
(* descriptors with mixin(receiver, supplier).  The operators below are    *)
(* those operations as the sources invoke them: the ordinary-object        *)
(* behaviour of the language the files are written in, in non-strict       *)
(* (script) mode, which is the mode every source file runs in.             *)
(*                                                                         *)
(* Vocabulary of the specification -> the source:                          *)
(*   record / delegate        object / its prototype                       *)
(*   stored / computed        data property / accessor property            *)
(*   define, remove, get, set Object.defineProperty, delete, o.p, o.p = v  *)
(***************************************************************************)
EXTENDS Naturals, Sequences, FiniteSets, TLC

VARIABLES heap, before, last, ops

vars == <<heap, before, last, ops>>

(***************************************************************************)
(* Universe of the model.                                                  *)
(***************************************************************************)
\* R: a receiver; D: a delegate (prototype) or mixin supplier; P: D's prototype.
Records == {"R", "D", "P"}
Null == "null"
\* The objects the operations are applied to (P is read through the chain of
\* D and supplies a mixin).
Targets == {"R", "D"}

\* "name" may be a data or an accessor property; "_name" is the data property
\* the accessors of the sources read and write (this._name, this._data, this._color).
Names == {"_name", "name"}
Backing == "_name"
AccessorNames == {"name"}

Values == {"Josef", "Pascal"}
Undefined == "undefined"

\* Number of operations applied after construction.
MaxOps == 2

(***************************************************************************)
(* Property descriptors.                                                   *)
(* An own property is a full record of kind "data" or "accessor".  The     *)
(* argument of Object.defineProperty is a partial record: a field that is  *)
(* not in its DOMAIN was not given.                                        *)
(***************************************************************************)
Has(Desc, f) == f \in DOMAIN Desc

Field(Desc, f, default) == IF f \in DOMAIN Desc THEN Desc[f] ELSE default

IsAccessorDescriptor(Desc) == Has(Desc, "get") \/ Has(Desc, "set")

IsDataDescriptor(Desc) == Has(Desc, "value") \/ Has(Desc, "writable")

IsGenericDescriptor(Desc) == ~IsAccessorDescriptor(Desc) /\ ~IsDataDescriptor(Desc)

\* NewProperty, taking the flags a descriptor omits as true (the flags an
\* assignment gives) instead of false.
NewPropertyLax(Desc) ==
    IF IsAccessorDescriptor(Desc)
    THEN [kind |-> "accessor",
          get |-> Field(Desc, "get", Undefined),
          set |-> Field(Desc, "set", Undefined),
          enumerable |-> Field(Desc, "enumerable", TRUE),
          configurable |-> Field(Desc, "configurable", TRUE)]
    ELSE [kind |-> "data",
          value |-> Field(Desc, "value", Undefined),
          writable |-> Field(Desc, "writable", TRUE),
          enumerable |-> Field(Desc, "enumerable", TRUE),
          configurable |-> Field(Desc, "configurable", TRUE)]

\* A property created by Object.defineProperty: every field that was not
\* given defaults to undefined / false.
NewProperty(Desc) ==
    IF IsAccessorDescriptor(Desc)
    THEN [kind |-> "accessor",
          get |-> Field(Desc, "get", Undefined),
          set |-> Field(Desc, "set", Undefined),
          enumerable |-> Field(Desc, "enumerable", FALSE),
          configurable |-> Field(Desc, "configurable", FALSE)]
    ELSE [kind |-> "data",
          value |-> Field(Desc, "value", Undefined),
          writable |-> Field(Desc, "writable", FALSE),
          enumerable |-> Field(Desc, "enumerable", FALSE),
          configurable |-> Field(Desc, "configurable", FALSE)]

\* Rejected, forgetting that configurable cannot be turned back on.
RejectedAllowsReconfigure(cur, Desc) ==
    /\ ~cur.configurable
    /\ \/ Has(Desc, "enumerable") /\ Desc.enumerable # cur.enumerable
       \/ ~IsGenericDescriptor(Desc)
            /\ (IsAccessorDescriptor(Desc) # (cur.kind = "accessor"))
       \/ /\ cur.kind = "accessor"
          /\ \/ Has(Desc, "get") /\ Desc.get # cur.get
             \/ Has(Desc, "set") /\ Desc.set # cur.set
       \/ /\ cur.kind = "data"
          /\ ~cur.writable
          /\ \/ Has(Desc, "writable") /\ Desc.writable
             \/ Has(Desc, "value") /\ Desc.value # cur.value

\* Rejected, refusing every change of value on a non-configurable property.
RejectedFreezesValue(cur, Desc) ==
    /\ ~cur.configurable
    /\ \/ Has(Desc, "configurable") /\ Desc.configurable
       \/ Has(Desc, "enumerable") /\ Desc.enumerable # cur.enumerable
       \/ ~IsGenericDescriptor(Desc)
            /\ (IsAccessorDescriptor(Desc) # (cur.kind = "accessor"))
       \/ /\ cur.kind = "accessor"
          /\ \/ Has(Desc, "get") /\ Desc.get # cur.get
             \/ Has(Desc, "set") /\ Desc.set # cur.set
       \/ /\ cur.kind = "data"
          /\ \/ ~cur.writable /\ Has(Desc, "writable") /\ Desc.writable
             \/ Has(Desc, "value") /\ Desc.value # cur.value

\* The redefinitions a non-configurable property refuses.
Rejected(cur, Desc) ==
    /\ ~cur.configurable
    /\ \/ Has(Desc, "configurable") /\ Desc.configurable
       \/ Has(Desc, "enumerable") /\ Desc.enumerable # cur.enumerable
       \/ ~IsGenericDescriptor(Desc)
            /\ (IsAccessorDescriptor(Desc) # (cur.kind = "accessor"))
       \/ /\ cur.kind = "accessor"
          /\ \/ Has(Desc, "get") /\ Desc.get # cur.get
             \/ Has(Desc, "set") /\ Desc.set # cur.set
       \/ /\ cur.kind = "data"
          /\ ~cur.writable
          /\ \/ Has(Desc, "writable") /\ Desc.writable
             \/ Has(Desc, "value") /\ Desc.value # cur.value

\* An existing property after an accepted redefinition: the given fields
\* replace the old ones; a change of kind keeps enumerable and configurable.
Merge(cur, Desc) ==
    LET e == Field(Desc, "enumerable", cur.enumerable)
        c == Field(Desc, "configurable", cur.configurable)
    IN  IF cur.kind = "data" /\ IsAccessorDescriptor(Desc)
        THEN [kind |-> "accessor",
              get |-> Field(Desc, "get", Undefined),
              set |-> Field(Desc, "set", Undefined),
              enumerable |-> e, configurable |-> c]
        ELSE IF cur.kind = "accessor" /\ IsDataDescriptor(Desc)
        THEN [kind |-> "data",
              value |-> Field(Desc, "value", Undefined),
              writable |-> Field(Desc, "writable", FALSE),
              enumerable |-> e, configurable |-> c]
        ELSE IF cur.kind = "data"
        THEN [kind |-> "data",
              value |-> Field(Desc, "value", cur.value),
              writable |-> Field(Desc, "writable", cur.writable),
              enumerable |-> e, configurable |-> c]
        ELSE [kind |-> "accessor",
              get |-> Field(Desc, "get", cur.get),
              set |-> Field(Desc, "set", cur.set),
              enumerable |-> e, configurable |-> c]

\* Object.getOwnPropertyDescriptor: the full descriptor of an own property.
FromPropertyDescriptor(cur) ==
    IF cur.kind = "data"
    THEN [value |-> cur.value, writable |-> cur.writable,
          enumerable |-> cur.enumerable, configurable |-> cur.configurable]
    ELSE [get |-> cur.get, set |-> cur.set,
          enumerable |-> cur.enumerable, configurable |-> cur.configurable]

(***************************************************************************)
(* Objects.  h is a heap: h[o] = [keys, desc, extensible, proto] with keys *)
(* the own property names in creation order and desc their descriptors.    *)
(***************************************************************************)
HasOwn(h, o, p) == p \in DOMAIN h[o].desc

NoProperties == [p \in {} |-> Undefined]

\* {} / Object.create(proto)
NewObject(proto) ==
    [keys |-> <<>>, desc |-> NoProperties, extensible |-> TRUE, proto |-> proto]

Outcome(h, e) == [heap |-> h, err |-> e]

\* o with its descriptors replaced by desc and its key order by keys.
Reshaped(h, o, keys, desc, extensible) ==
    [q \in DOMAIN h |->
        IF q = o
        THEN [keys |-> keys, desc |-> desc, extensible |-> extensible,
              proto |-> h[o].proto]
        ELSE h[q]]

WithProperty(h, o, p, d) ==
    Reshaped(h, o,
             IF HasOwn(h, o, p) THEN h[o].keys ELSE Append(h[o].keys, p),
             [q \in (DOMAIN h[o].desc) \cup {p} |-> IF q = p THEN d ELSE h[o].desc[q]],
             h[o].extensible)

WithoutProperty(h, o, p) ==
    Reshaped(h, o,
             SelectSeq(h[o].keys, LAMBDA q : q # p),
             [q \in (DOMAIN h[o].desc) \ {p} |-> h[o].desc[q]],
             h[o].extensible)

\* DefineOwnProperty, adding properties to objects that are not extensible.
DefineIgnoringExtensible(h, o, p, Desc) ==
    IF IsAccessorDescriptor(Desc) /\ IsDataDescriptor(Desc)
    THEN Outcome(h, "DefinitionError")
    ELSE IF ~HasOwn(h, o, p)
    THEN Outcome(WithProperty(h, o, p, NewProperty(Desc)), "ok")
    ELSE IF Rejected(h[o].desc[p], Desc)
    THEN Outcome(h, "NotConfigurable")
    ELSE Outcome(WithProperty(h, o, p, Merge(h[o].desc[p], Desc)), "ok")

\* Object.defineProperty(o, p, Desc).  A new property needs o to be
\* extensible; an existing one is redefined unless Rejected.  A refused
\* definition throws and changes nothing.
DefineOwnProperty(h, o, p, Desc) ==
    IF IsAccessorDescriptor(Desc) /\ IsDataDescriptor(Desc)
    THEN Outcome(h, "DefinitionError")
    ELSE IF ~HasOwn(h, o, p)
    THEN IF ~h[o].extensible
         THEN Outcome(h, "NotExtensible")
         ELSE Outcome(WithProperty(h, o, p, NewProperty(Desc)), "ok")
    ELSE IF Rejected(h[o].desc[p], Desc)
    THEN Outcome(h, "NotConfigurable")
    ELSE Outcome(WithProperty(h, o, p, Merge(h[o].desc[p], Desc)), "ok")

\* AssignedProperty, with the defaults of a value-only definition.
AssignedShorthand(v) == [value |-> v]

\* The descriptor an assignment creates: o.p = v on an object that has no p.
AssignedProperty(v) ==
    [value |-> v, writable |-> TRUE, enumerable |-> TRUE, configurable |-> TRUE]

\* o.p, running a getter found on the chain with this = the object that
\* owns the accessor instead of the object read through.
RECURSIVE GetOnOwner(_, _, _, _)
GetOnOwner(h, o, p, receiver) ==
    IF HasOwn(h, o, p)
    THEN LET d == h[o].desc[p]
         IN  IF d.kind = "data" THEN d.value
             ELSE IF d.get = Undefined THEN Undefined
             ELSE GetOnOwner(h, o, Backing, o)
    ELSE IF h[o].proto = Null THEN Undefined
    ELSE GetOnOwner(h, h[o].proto, p, receiver)

\* o.p, looking further up the chain when the accessor found has no getter.
RECURSIVE GetSkippingWriteOnly(_, _, _, _)
GetSkippingWriteOnly(h, o, p, receiver) ==
    IF HasOwn(h, o, p) /\ (h[o].desc[p].kind = "data" \/ h[o].desc[p].get # Undefined)
    THEN LET d == h[o].desc[p]
         IN  IF d.kind = "data" THEN d.value
             ELSE GetSkippingWriteOnly(h, receiver, Backing, receiver)
    ELSE IF h[o].proto = Null THEN Undefined
    ELSE GetSkippingWriteOnly(h, h[o].proto, p, receiver)

\* o.p, yielding a marker of its own when no object on the chain owns p.
RECURSIVE GetWithAbsentMarker(_, _, _, _)
GetWithAbsentMarker(h, o, p, receiver) ==
    IF HasOwn(h, o, p)
    THEN LET d == h[o].desc[p]
         IN  IF d.kind = "data" THEN d.value
             ELSE IF d.get = Undefined THEN Undefined
             ELSE GetWithAbsentMarker(h, receiver, Backing, receiver)
    ELSE IF h[o].proto = Null THEN "absent"
    ELSE GetWithAbsentMarker(h, h[o].proto, p, receiver)

\* receiver.p read through the prototype chain, starting the search at o.
\* The getters of the sources all read this._name / this._data / this._color:
\* the backing data property of the receiver.
RECURSIVE Get(_, _, _, _)
Get(h, o, p, receiver) ==
    IF HasOwn(h, o, p)
    THEN LET d == h[o].desc[p]
         IN  IF d.kind = "data" THEN d.value
             ELSE IF d.get = Undefined THEN Undefined
             ELSE Get(h, receiver, Backing, receiver)
    ELSE IF h[o].proto = Null THEN Undefined
    ELSE Get(h, h[o].proto, p, receiver)

\* receiver.p = v, starting the search for p at o.  The setters of the
\* sources are "SetName" (this._name = value) and "SetLog" (console.log only).
\* In non-strict code a refused assignment is silently dropped; err records
\* why it was refused.
RECURSIVE OrdinarySet(_, _, _, _, _)

\* OrdinarySet, running an inherited setter on the object that owns the
\* accessor instead of on the receiver.
OrdinarySetSetterOnOwner(h, o, p, v, receiver) ==
    IF ~HasOwn(h, o, p) /\ h[o].proto # Null
    THEN OrdinarySet(h, h[o].proto, p, v, receiver)
    ELSE IF ~HasOwn(h, o, p) \/ h[o].desc[p].kind = "data"
    THEN IF HasOwn(h, o, p) /\ ~h[o].desc[p].writable
         THEN Outcome(h, "NotWritable")
         ELSE IF HasOwn(h, receiver, p)
         THEN IF h[receiver].desc[p].kind = "accessor"
                   \/ ~h[receiver].desc[p].writable
              THEN Outcome(h, "NotWritable")
              ELSE DefineOwnProperty(h, receiver, p, [value |-> v])
         ELSE DefineOwnProperty(h, receiver, p, AssignedProperty(v))
    ELSE IF h[o].desc[p].set = Undefined
    THEN Outcome(h, "NotWritable")
    ELSE IF h[o].desc[p].set = "SetName"
    THEN Outcome(OrdinarySet(h, o, Backing, v, o).heap, "ok")
    ELSE Outcome(h, "ok")

\* OrdinarySet, writing to the object that owns p instead of the receiver.
OrdinarySetOnOwner(h, o, p, v, receiver) ==
    IF ~HasOwn(h, o, p) /\ h[o].proto # Null
    THEN OrdinarySet(h, h[o].proto, p, v, receiver)
    ELSE IF ~HasOwn(h, o, p) \/ h[o].desc[p].kind = "data"
    THEN IF HasOwn(h, o, p) /\ ~h[o].desc[p].writable
         THEN Outcome(h, "NotWritable")
         ELSE IF HasOwn(h, o, p)
         THEN DefineOwnProperty(h, o, p, [value |-> v])
         ELSE DefineOwnProperty(h, o, p, AssignedProperty(v))
    ELSE IF h[o].desc[p].set = Undefined
    THEN Outcome(h, "NotWritable")
    ELSE IF h[o].desc[p].set = "SetName"
    THEN Outcome(OrdinarySet(h, receiver, Backing, v, receiver).heap, "ok")
    ELSE Outcome(h, "ok")

OrdinarySet(h, o, p, v, receiver) ==
    IF ~HasOwn(h, o, p) /\ h[o].proto # Null
    THEN OrdinarySet(h, h[o].proto, p, v, receiver)
    ELSE IF ~HasOwn(h, o, p) \/ h[o].desc[p].kind = "data"
    THEN IF HasOwn(h, o, p) /\ ~h[o].desc[p].writable
         THEN Outcome(h, "NotWritable")
         ELSE IF HasOwn(h, receiver, p)
         THEN IF h[receiver].desc[p].kind = "accessor"
                   \/ ~h[receiver].desc[p].writable
              THEN Outcome(h, "NotWritable")
              ELSE DefineOwnProperty(h, receiver, p, [value |-> v])
         ELSE DefineOwnProperty(h, receiver, p, AssignedProperty(v))
    ELSE IF h[o].desc[p].set = Undefined
    THEN Outcome(h, "NotWritable")
    ELSE IF h[o].desc[p].set = "SetName"
    THEN Outcome(OrdinarySet(h, receiver, Backing, v, receiver).heap, "ok")
    ELSE Outcome(h, "ok")

\* Delete, removing non-configurable properties too.
DeleteIgnoringConfigurable(h, o, p) ==
    IF ~HasOwn(h, o, p) THEN Outcome(h, "ok")
    ELSE Outcome(WithoutProperty(h, o, p), "ok")

\* Delete, taking a non-configurable property off before reporting the
\* refusal.
DeleteBeforeRefusing(h, o, p) ==
    IF ~HasOwn(h, o, p) THEN Outcome(h, "ok")
    ELSE Outcome(WithoutProperty(h, o, p),
                 IF h[o].desc[p].configurable THEN "ok" ELSE "NotConfigurable")

\* delete o.p
Delete(h, o, p) ==
    IF ~HasOwn(h, o, p) THEN Outcome(h, "ok")
    ELSE IF h[o].desc[p].configurable THEN Outcome(WithoutProperty(h, o, p), "ok")
    ELSE Outcome(h, "NotConfigurable")

\* Object.preventExtensions(o), sealing o as Object.seal does.
PreventExtensionsSealing(h, o) ==
    Reshaped(h, o, h[o].keys,
             [p \in DOMAIN h[o].desc |-> Merge(h[o].desc[p], [configurable |-> FALSE])],
             FALSE)

\* Object.preventExtensions(o)
PreventExtensions(h, o) == Reshaped(h, o, h[o].keys, h[o].desc, FALSE)

\* Object.seal(o)
Seal(h, o) ==
    Reshaped(h, o, h[o].keys,
             [p \in DOMAIN h[o].desc |-> Merge(h[o].desc[p], [configurable |-> FALSE])],
             FALSE)

\* Object.freeze(o), taking the setters off the accessor properties as well.
FreezeRevokingSetters(h, o) ==
    Reshaped(h, o, h[o].keys,
             [p \in DOMAIN h[o].desc |->
                 IF h[o].desc[p].kind = "data"
                 THEN Merge(h[o].desc[p], [configurable |-> FALSE, writable |-> FALSE])
                 ELSE Merge(h[o].desc[p], [configurable |-> FALSE, set |-> Undefined])],
             FALSE)

\* Object.freeze(o), freezing the prototype of o along with o.
FreezeWithPrototype(h, o) ==
    LET own == Reshaped(h, o, h[o].keys,
                   [p \in DOMAIN h[o].desc |->
                       IF h[o].desc[p].kind = "data"
                       THEN Merge(h[o].desc[p], [configurable |-> FALSE, writable |-> FALSE])
                       ELSE Merge(h[o].desc[p], [configurable |-> FALSE])],
                   FALSE)
        d == h[o].proto
    IN  IF d = Null THEN own
        ELSE Reshaped(own, d, own[d].keys,
                 [p \in DOMAIN own[d].desc |->
                     IF own[d].desc[p].kind = "data"
                     THEN Merge(own[d].desc[p], [configurable |-> FALSE, writable |-> FALSE])
                     ELSE Merge(own[d].desc[p], [configurable |-> FALSE])],
                 FALSE)

\* Object.freeze(o)
Freeze(h, o) ==
    Reshaped(h, o, h[o].keys,
             [p \in DOMAIN h[o].desc |->
                 IF h[o].desc[p].kind = "data"
                 THEN Merge(h[o].desc[p], [configurable |-> FALSE, writable |-> FALSE])
                 ELSE Merge(h[o].desc[p], [configurable |-> FALSE])],
             FALSE)

\* Object.isSealed(o) / Object.isFrozen(o)
IsSealed(h, o) ==
    /\ ~h[o].extensible
    /\ \A p \in DOMAIN h[o].desc : ~h[o].desc[p].configurable

IsFrozen(h, o) ==
    /\ IsSealed(h, o)
    /\ \A p \in DOMAIN h[o].desc :
          h[o].desc[p].kind = "data" => ~h[o].desc[p].writable

\* The lock level of o, as Object.isExtensible / isSealed / isFrozen report it.
\* An object that is no longer extensible but still has a configurable
\* property is neither sealed nor frozen.
Extensibility(h, o) ==
    IF h[o].extensible THEN "Extensible"
    ELSE IF IsFrozen(h, o) THEN "Frozen"
    ELSE IF IsSealed(h, o) THEN "Sealed"
    ELSE "NonExtensible"

\* The first object on o's prototype chain that owns p, or Null.
RECURSIVE Owner(_, _, _)
Owner(h, o, p) ==
    IF HasOwn(h, o, p) THEN o
    ELSE IF h[o].proto = Null THEN Null
    ELSE Owner(h, h[o].proto, p)

\* All own names of o, enumerable or not (Object.getOwnPropertyNames).
OwnPropertyNames(h, o) == h[o].keys

\* Object.keys(o): the own enumerable names, in creation order.
Keys(h, o) == SelectSeq(h[o].keys, LAMBDA p : h[o].desc[p].enumerable)

\* MixinLoop, going on with the remaining keys after a refused definition and
\* reporting the last refusal.
RECURSIVE MixinLoopContinues(_, _, _, _)
MixinLoopContinues(h, receiver, supplier, ks) ==
    IF ks = <<>> THEN [heap |-> h, err |-> "ok", name |-> Null]
    ELSE LET r == DefineOwnProperty(h, receiver, Head(ks),
                      FromPropertyDescriptor(h[supplier].desc[Head(ks)]))
             rest == MixinLoopContinues(r.heap, receiver, supplier, Tail(ks))
         IN  IF r.err # "ok" /\ rest.err = "ok"
             THEN [heap |-> rest.heap, err |-> r.err, name |-> Head(ks)]
             ELSE rest

\* The forEach of mixin: each key's descriptor is read from the supplier and
\* defined on the receiver; a refused definition throws out of the loop.
RECURSIVE MixinLoop(_, _, _, _)
MixinLoop(h, receiver, supplier, ks) ==
    IF ks = <<>> THEN [heap |-> h, err |-> "ok", name |-> Null]
    ELSE LET r == DefineOwnProperty(h, receiver, Head(ks),
                      FromPropertyDescriptor(h[supplier].desc[Head(ks)]))
         IN  IF r.err # "ok"
             THEN [heap |-> r.heap, err |-> r.err, name |-> Head(ks)]
             ELSE MixinLoop(r.heap, receiver, supplier, Tail(ks))

\* The fallback branch of mixin (receiver[property] = supplier[property]):
\* the value the supplier reads is assigned, not the descriptor.
RECURSIVE AssignLoop(_, _, _, _)
AssignLoop(h, receiver, supplier, ks) ==
    IF ks = <<>> THEN [heap |-> h, err |-> "ok", name |-> Null]
    ELSE AssignLoop(OrdinarySet(h, receiver, Head(ks),
                                Get(h, supplier, Head(ks), supplier), receiver).heap,
                    receiver, supplier, Tail(ks))

\* Mixin, taking the fallback branch.
MixinByAssignment(h, receiver, supplier) ==
    AssignLoop(h, receiver, supplier, Keys(h, supplier))

\* Mixin, also making the supplier the receiver's prototype (unless that
\* would close a cycle).
MixinDelegating(h, receiver, supplier) ==
    LET r == MixinLoop(h, receiver, supplier, Keys(h, supplier))
    IN  IF supplier = receiver \/ h[supplier].proto = receiver
             \/ (h[supplier].proto # Null /\ h[h[supplier].proto].proto = receiver)
        THEN r
        ELSE [heap |-> [q \in DOMAIN r.heap |->
                           IF q = receiver
                           THEN [keys |-> r.heap[q].keys, desc |-> r.heap[q].desc,
                                 extensible |-> r.heap[q].extensible,
                                 proto |-> supplier]
                           ELSE r.heap[q]],
              err |-> r.err, name |-> r.name]

\* mixin(receiver, supplier)
Mixin(h, receiver, supplier) ==
    MixinLoop(h, receiver, supplier, Keys(h, supplier))

(***************************************************************************)
(* Inputs of the operations.                                               *)
(***************************************************************************)
AllTrue(v) == AssignedProperty(v)

\* Descriptors handed to Object.defineProperty: the full data descriptors of
\* the sources (all flags true; writable: false as _age; enumerable: false
\* as _color), value-only shorthand, single-flag redefinitions, and the
\* accessor descriptors of the sources (get/set pair, getter with a logging
\* setter, getter only, setter only).
DataDescs ==
    {AllTrue(v) : v \in Values}
      \cup {[value |-> v] : v \in Values}
      \cup {[AllTrue("Josef") EXCEPT !.writable = FALSE],
            [AllTrue("Josef") EXCEPT !.enumerable = FALSE],
            [writable |-> FALSE], [writable |-> TRUE],
            [enumerable |-> FALSE], [configurable |-> TRUE]}

AccessorDescs ==
    {[get |-> "GetName", set |-> "SetName", enumerable |-> TRUE, configurable |-> TRUE],
     [get |-> "GetName", set |-> "SetLog", enumerable |-> TRUE, configurable |-> TRUE],
     [get |-> "GetName"],
     [set |-> "SetName"]}

DescInputs(p) == IF p \in AccessorNames THEN DataDescs \cup AccessorDescs ELSE DataDescs

(***************************************************************************)
(* Construction: the objects the sources build before operating on them.   *)
(***************************************************************************)
RECURSIVE Build(_, _)
Build(h, steps) ==
    IF steps = <<>> THEN h
    ELSE Build(DefineOwnProperty(h, Head(steps)[1], Head(steps)[2], Head(steps)[3]).heap,
               Tail(steps))

\* function Pet(name) { this.name = name }
PetR == << <<"R", "_name", AssignedProperty("Josef")>> >>

\* objectWithAccessors = { _data: 'data', get data() {...}, set data(data) {...} }
AccessorsD ==
    << <<"D", "_name", AssignedProperty("Pascal")>>,
       <<"D", "name", [get |-> "GetName", set |-> "SetName",
                       enumerable |-> TRUE, configurable |-> TRUE]>> >>

\* Elephant: _color (not enumerable) and the color accessor with a logging setter
ElephantD ==
    << <<"D", "_name", [value |-> "Pascal", writable |-> TRUE,
                        configurable |-> TRUE, enumerable |-> FALSE]>>,
       <<"D", "name", [get |-> "GetName", set |-> "SetLog",
                       configurable |-> TRUE, enumerable |-> TRUE]>> >>

\* function Person(name) { this.name = name }
PersonD == << <<"D", "name", AssignedProperty("Pascal")>> >>

\* A prototype object carrying shared members (AnotherPerson.prototype = {...})
ProtoP ==
    << <<"P", "name", AssignedProperty("Josef")>>,
       <<"P", "_name", AssignedProperty("Pascal")>> >>

\* R is created either with prototype D (new / Object.create) or with none
\* (Object.create(null)); D's prototype is P; P ends the chain.
Fresh(protoR) ==
    [o \in Records |->
        NewObject(IF o = "R" THEN protoR ELSE IF o = "D" THEN "P" ELSE Null)]

\* Delegation (R -> D -> P, as inheritedPerson -> myPerson -> Person.prototype)
\* and mixin (R on its own, D the supplier, as dumbo and new Elephant()).
Scenarios ==
    {<<"D", AccessorsD>>, <<"D", PersonD>>, <<Null, ElephantD>>, <<Null, PersonD>>}

\* last: the operation applied last, its outcome (err: "ok" or why it was
\* refused; ret: what it returned, Thrown after an exception), and what held
\* just before it (had: rec owned name; was: rec's lock level).
\* before: the objects as they were when that operation started.
NoOp == [op |-> "init", rec |-> Null, name |-> Null, arg |-> Null,
         err |-> "ok", ret |-> Null, had |-> FALSE, was |-> "Extensible"]

Applied(op, o, p, arg, err, ret) ==
    [op |-> op, rec |-> o, name |-> p, arg |-> arg, err |-> err, ret |-> ret,
     had |-> IF p \in Names THEN HasOwn(heap, o, p) ELSE FALSE,
     was |-> Extensibility(heap, o)]

Init ==
    /\ \E sc \in Scenarios : heap = Build(Fresh(sc[1]), PetR \o sc[2] \o ProtoP)
    /\ last = NoOp
    /\ before = heap
    /\ ops = 0

(***************************************************************************)
(* Operations.                                                             *)
(***************************************************************************)
Thrown == "throw"

\* Object.defineProperty(o, p, Desc)
Define(o, p, Desc) ==
    /\ ops < MaxOps
    /\ LET r == DefineOwnProperty(heap, o, p, Desc)
       IN  /\ heap' = r.heap
           /\ last' = Applied("define", o, p, Desc, r.err,
                              IF r.err = "ok" THEN o ELSE Thrown)
    /\ before' = heap
    /\ ops' = ops + 1

\* o.p = v as strict-mode code would run it: a refused assignment throws.
AssignStrict(o, p, v) ==
    /\ ops < MaxOps
    /\ LET r == OrdinarySet(heap, o, p, v, o)
       IN  /\ heap' = r.heap
           /\ last' = Applied("set", o, p, v, r.err,
                              IF r.err = "ok" THEN v ELSE Thrown)
    /\ before' = heap
    /\ ops' = ops + 1

\* o.p = v
Assign(o, p, v) ==
    /\ ops < MaxOps
    /\ LET r == OrdinarySet(heap, o, p, v, o)
       IN  /\ heap' = r.heap
           /\ last' = Applied("set", o, p, v, r.err, v)
    /\ before' = heap
    /\ ops' = ops + 1

\* o.p
Read(o, p) ==
    /\ ops < MaxOps
    /\ heap' = heap
    /\ last' = Applied("get", o, p, Null, "ok", Get(heap, o, p, o))
    /\ before' = heap
    /\ ops' = ops + 1

\* delete o.p
Remove(o, p) ==
    /\ ops < MaxOps
    /\ LET r == Delete(heap, o, p)
       IN  /\ heap' = r.heap
           /\ last' = Applied("remove", o, p, Null, r.err,
                              IF r.err = "ok" THEN "true" ELSE "false")
    /\ before' = heap
    /\ ops' = ops + 1

Locked(op, o, h) ==
    /\ ops < MaxOps
    /\ heap' = h
    /\ last' = Applied(op, o, Null, Null, "ok", o)
    /\ before' = heap
    /\ ops' = ops + 1

DoPreventExtensions(o) == Locked("preventExtensions", o, PreventExtensions(heap, o))

DoSeal(o) == Locked("seal", o, Seal(heap, o))

DoFreeze(o) == Locked("freeze", o, Freeze(heap, o))

\* mixin(receiver, supplier)
DoMixin(receiver, supplier) ==
    /\ ops < MaxOps
    /\ receiver # supplier
    /\ LET r == Mixin(heap, receiver, supplier)
       IN  /\ heap' = r.heap
           /\ last' = Applied("mixin", receiver, r.name, supplier, r.err,
                              IF r.err = "ok" THEN receiver ELSE Thrown)
    /\ before' = heap
    /\ ops' = ops + 1

Next ==
    \/ \E o \in Targets, p \in Names : \E Desc \in DescInputs(p) : Define(o, p, Desc)
    \/ \E o \in Targets, p \in Names, v \in Values : Assign(o, p, v)
    \/ \E o \in Targets, p \in Names : Read(o, p)
    \/ \E o \in Targets, p \in Names : Remove(o, p)
    \/ \E o \in Targets : DoPreventExtensions(o)
    \/ \E o \in Targets : DoSeal(o)
    \/ \E o \in Targets : DoFreeze(o)
    \/ \E receiver \in Targets, supplier \in Records : DoMixin(receiver, supplier)

Spec == Init /\ [][Next]_vars

(***************************************************************************)
(* Properties.  Every state after the first is the result of one           *)
(* operation: last describes it, before is the heap it was applied to and  *)
(* heap the heap it left.                                                  *)
(***************************************************************************)
\* p read through o resolves to a data property (own or inherited).
ResolvesToStored(h, o, p) ==
    /\ Owner(h, o, p) # Null
    /\ h[Owner(h, o, p)].desc[p].kind = "data"

\* C1: delegation shadowing.  When D, the prototype of R, owns p as a
\* writable data property and R (extensible, as created) does not own p,
\* R.p = v succeeds and creates an own p on R: afterwards R.p reads v, R owns
\* p, and D is exactly as before (D.p still reads its old value).
C1_Shadowing ==
    \A r \in Records, p \in Names :
       (/\ last.op = "set" /\ last.rec = r /\ last.name = p
        /\ before[r].proto # Null
        /\ HasOwn(before, before[r].proto, p)
        /\ before[before[r].proto].desc[p].kind = "data"
        /\ before[before[r].proto].desc[p].writable
        /\ ~HasOwn(before, r, p)
        /\ before[r].extensible)
       => /\ last.err = "ok"
          /\ HasOwn(heap, r, p)
          /\ Get(heap, r, p, r) = last.arg
          /\ heap[before[r].proto] = before[before[r].proto]
          /\ Get(heap, before[r].proto, p, before[r].proto)
               = Get(before, before[r].proto, p, before[r].proto)

\* R had no own property, its prototype owns p = one value, R.p = another
\* value was assigned: R now owns only p and reads the new value, the
\* prototype still holds the old one.
C1_Witness ==
    /\ last.op = "set" /\ last.err = "ok" /\ ~last.had
    /\ heap[last.rec].proto # Null
    /\ HasOwn(heap, heap[last.rec].proto, last.name)
    /\ heap[heap[last.rec].proto].desc[last.name].kind = "data"
    /\ heap[heap[last.rec].proto].desc[last.name].writable
    /\ heap[heap[last.rec].proto].desc[last.name].value # last.arg
    /\ heap[last.rec].keys = <<last.name>>
    /\ Get(heap, last.rec, last.name, last.rec) = last.arg

\* C2: on a frozen R, no assignment R.q = v (to any name q, setters
\* included) changes what R.p reads, for every p that resolves to a data
\* property.
C2_FrozenSetKeepsGet ==
    \A r \in Records :
       (last.op = "set" /\ last.rec = r /\ IsFrozen(before, r))
       => \A p \in Names :
             ResolvesToStored(before, r, p)
             => Get(heap, r, p, r) = Get(before, r, p, r)

\* An assignment of a different value to an own data property of a frozen
\* object that has properties was applied and refused.
C2_Witness ==
    /\ last.op = "set" /\ last.was = "Frozen" /\ last.had
    /\ heap[last.rec].desc[last.name].kind = "data"
    /\ heap[last.rec].desc[last.name].value # last.arg
    /\ last.err = "NotWritable"

\* C3: the seal scenario.  On a sealed R that owns p as a writable data
\* property, Object.defineProperty(R, p, {value: another value, writable:
\* true, enumerable: true, configurable: true}) is refused (not configurable)
\* and changes nothing, while R.p = v succeeds and R.p then reads v.
C3_SealScenario ==
    \A r \in Records, p \in Names :
       (/\ last.rec = r /\ last.name = p
        /\ IsSealed(before, r)
        /\ HasOwn(before, r, p)
        /\ before[r].desc[p].kind = "data"
        /\ before[r].desc[p].writable)
       => /\ (last.op = "define" /\ \E v \in Values : last.arg = AllTrue(v))
               => (last.err = "NotConfigurable" /\ heap = before)
          /\ last.op = "set"
               => (last.err = "ok" /\ Get(heap, r, p, r) = last.arg)

\* R._name = 'Josef' was sealed and then assigned 'Pascal': the assignment
\* succeeded on the sealed object.
C3_Witness ==
    /\ last.op = "set" /\ last.was = "Sealed" /\ last.had /\ last.err = "ok"
    /\ last.rec = "R" /\ last.name = "_name" /\ last.arg = "Pascal"
    /\ ops = 2
    /\ IsSealed(heap, "R")
    /\ heap["R"].desc["_name"].value = "Pascal"

\* Desc asks for something the existing property cur does not already have.
Differs(cur, Desc) ==
    \/ ~IsGenericDescriptor(Desc) /\ (IsAccessorDescriptor(Desc) # (cur.kind = "accessor"))
    \/ \E f \in (DOMAIN Desc) \cap (DOMAIN cur) : Desc[f] # cur[f]

\* Desc differs from cur solely by narrowing writable from true to false.
OnlyNarrowsWritable(cur, Desc) ==
    /\ cur.kind = "data" /\ cur.writable
    /\ ~IsAccessorDescriptor(Desc)
    /\ Has(Desc, "writable") /\ ~Desc.writable
    /\ \A f \in (DOMAIN Desc) \ {"writable"} : Desc[f] = cur[f]

\* cur is a still writable data property and Desc differs from it in value
\* and writable only.
OnlyValueOrWritable(cur, Desc) ==
    /\ cur.kind = "data" /\ cur.writable
    /\ ~IsAccessorDescriptor(Desc)
    /\ \A f \in (DOMAIN Desc) \ {"value", "writable"} : Desc[f] = cur[f]

\* C4 as stated: once a property is not configurable, it stays and no field
\* of its descriptor changes under any operation, except writable going
\* from true to false on a data property.
C4_Original ==
    \A r \in Records, p \in Names :
       (HasOwn(before, r, p) /\ ~before[r].desc[p].configurable)
       => /\ HasOwn(heap, r, p)
          /\ \/ heap[r].desc[p] = before[r].desc[p]
             \/ /\ before[r].desc[p].kind = "data"
                /\ before[r].desc[p].writable
                /\ heap[r].desc[p] = [before[r].desc[p] EXCEPT !.writable = FALSE]

\* C4, amended: once a property is not configurable, it stays, and its kind,
\* enumerable, configurable, getter and setter never change; writable only
\* goes from true to false; value may still change (assignment or
\* redefinition) while writable is true and never once writable is false.
C4_NonConfigurableStays ==
    \A r \in Records, p \in Names :
       (HasOwn(before, r, p) /\ ~before[r].desc[p].configurable)
       => /\ HasOwn(heap, r, p)
          /\ heap[r].desc[p].kind = before[r].desc[p].kind
          /\ heap[r].desc[p].enumerable = before[r].desc[p].enumerable
          /\ ~heap[r].desc[p].configurable
          /\ before[r].desc[p].kind = "accessor"
               => /\ heap[r].desc[p].get = before[r].desc[p].get
                  /\ heap[r].desc[p].set = before[r].desc[p].set
          /\ before[r].desc[p].kind = "data"
               => /\ heap[r].desc[p].writable => before[r].desc[p].writable
                  /\ ~before[r].desc[p].writable
                       => heap[r].desc[p].value = before[r].desc[p].value

\* R._name = 'Josef' was sealed (not configurable, still writable) and then
\* redefined with {value: 'Pascal'}: the value changed.
C4_Witness ==
    /\ last.op = "define" /\ last.err = "ok" /\ last.was = "Sealed" /\ last.had
    /\ last.rec = "R" /\ last.name = "_name" /\ last.arg = [value |-> "Pascal"]
    /\ ops = 2
    /\ ~heap["R"].desc["_name"].configurable
    /\ heap["R"].desc["_name"].value = "Pascal"

\* C5 as stated: on a non-configurable own property every delete is refused
\* and every defineProperty whose descriptor differs from the existing one
\* is refused, unless it differs solely by narrowing writable.
C5_Original ==
    \A r \in Records, p \in Names :
       (/\ last.rec = r /\ last.name = p
        /\ HasOwn(before, r, p) /\ ~before[r].desc[p].configurable)
       => /\ last.op = "remove" => last.err = "NotConfigurable"
          /\ (last.op = "define" /\ Differs(before[r].desc[p], last.arg))
               => IF OnlyNarrowsWritable(before[r].desc[p], last.arg)
                  THEN last.err = "ok"
                  ELSE last.err = "NotConfigurable"

\* C5, amended: on a non-configurable own property every delete is refused
\* and changes nothing; a defineProperty whose descriptor differs from the
\* existing one is refused and changes nothing, unless the property is a
\* data property that is still writable and the descriptor differs in value
\* and/or writable only: such a definition succeeds (as does one that does
\* not differ at all).
C5_NonConfigurableRedefine ==
    \A r \in Records, p \in Names :
       (/\ last.rec = r /\ last.name = p
        /\ HasOwn(before, r, p) /\ ~before[r].desc[p].configurable)
       => /\ last.op = "remove"
               => (last.err = "NotConfigurable" /\ heap = before)
          /\ last.op = "define"
               => IF Differs(before[r].desc[p], last.arg)
                       /\ ~OnlyValueOrWritable(before[r].desc[p], last.arg)
                  THEN last.err = "NotConfigurable" /\ heap = before
                  ELSE last.err = "ok"

\* A delete of a non-configurable own property was refused.
C5_Witness ==
    /\ last.op = "remove" /\ last.err = "NotConfigurable" /\ last.had
    /\ HasOwn(heap, last.rec, last.name)
    /\ ~heap[last.rec].desc[last.name].configurable

\* The lock levels strictly looser than a level.
Looser(level) ==
    IF level = "Frozen" THEN {"Extensible", "NonExtensible", "Sealed"}
    ELSE IF level = "Sealed" THEN {"Extensible", "NonExtensible"}
    ELSE IF level = "NonExtensible" THEN {"Extensible"}
    ELSE {}

\* C6: the lock level of every object only tightens: no operation moves an
\* object to a looser level (Frozen stays Frozen, also under seal; Sealed
\* never becomes extensible again).
C6_OnlyTightens ==
    \A r \in Records :
       \/ Extensibility(heap, r) = Extensibility(before, r)
       \/ Extensibility(before, r) \in Looser(Extensibility(heap, r))

\* seal was applied to a frozen object that has properties: it is still frozen.
C6_Witness ==
    /\ last.op = "seal" /\ last.was = "Frozen"
    /\ heap[last.rec].keys # <<>>
    /\ Extensibility(heap, last.rec) = "Frozen"

\* C7 as stated: a property created by an assignment is not writable, not
\* enumerable and not configurable.
C7_Original ==
    \A r \in Records, p \in Names :
       (/\ last.op = "set" /\ last.rec = r
        /\ ~HasOwn(before, r, p) /\ HasOwn(heap, r, p))
       => /\ heap[r].desc[p].kind = "data"
          /\ ~heap[r].desc[p].writable
          /\ ~heap[r].desc[p].enumerable
          /\ ~heap[r].desc[p].configurable

\* C7, amended: a property created on R by an assignment R.p = v is a data
\* property holding v that is writable, enumerable and configurable.
C7_AssignedFlags ==
    \A r \in Records, p \in Names :
       (/\ last.op = "set" /\ last.rec = r
        /\ ~HasOwn(before, r, p) /\ HasOwn(heap, r, p))
       => heap[r].desc[p] =
            [kind |-> "data", value |-> last.arg, writable |-> TRUE,
             enumerable |-> TRUE, configurable |-> TRUE]

\* An assignment created a property on an object that has no prototype (no
\* object owned the name before): the new property has all flags true.
C7_Witness ==
    /\ last.op = "set" /\ last.err = "ok" /\ ~last.had
    /\ heap[last.rec].proto = Null
    /\ HasOwn(heap, last.rec, last.name)
    /\ heap[last.rec].desc[last.name].writable
    /\ heap[last.rec].desc[last.name].enumerable
    /\ heap[last.rec].desc[last.name].configurable

\* The operation applied last was mixin(receiver, supplier).
MixinStep(receiver, supplier) ==
    last.op = "mixin" /\ last.rec = receiver /\ last.arg = supplier

\* The position of key k in the key sequence ks.
IndexOf(ks, k) == CHOOSE i \in 1..Len(ks) : ks[i] = k

\* C8: mixin keeps accessors accessors: after a completed mixin(receiver,
\* supplier) every enumerable accessor property of the supplier is an own
\* accessor property of the receiver with the same getter and setter, and
\* reading it through the receiver runs the getter on the receiver: it
\* yields what the receiver's backing property reads.
C8_MixinKeepsAccessors ==
    \A receiver, supplier \in Records, p \in Names :
       (/\ MixinStep(receiver, supplier) /\ last.err = "ok"
        /\ HasOwn(before, supplier, p)
        /\ before[supplier].desc[p].kind = "accessor"
        /\ before[supplier].desc[p].enumerable)
       => /\ HasOwn(heap, receiver, p)
          /\ heap[receiver].desc[p].kind = "accessor"
          /\ heap[receiver].desc[p].get = before[supplier].desc[p].get
          /\ heap[receiver].desc[p].set = before[supplier].desc[p].set
          /\ before[supplier].desc[p].get = "GetName"
               => Get(heap, receiver, p, receiver)
                    = Get(heap, receiver, Backing, receiver)

\* A mixin copied the accessor name onto a receiver whose backing property
\* holds another value than the supplier's: the two read differently.
C8_Witness ==
    /\ last.op = "mixin" /\ last.err = "ok"
    /\ HasOwn(heap, last.rec, "name")
    /\ heap[last.rec].desc["name"].kind = "accessor"
    /\ heap[last.rec].desc["name"].get = "GetName"
    /\ HasOwn(heap, last.arg, "name")
    /\ heap[last.arg].desc["name"].kind = "accessor"
    /\ Get(heap, last.rec, "name", last.rec) # Undefined
    /\ Get(heap, last.rec, "name", last.rec) # Get(heap, last.arg, "name", last.arg)

\* C9 as stated: when the receiver is not extensible and lacks some of the
\* supplier's names, mixin still processes the remaining names: a name the
\* receiver already owns (and may redefine) ends up with the supplier's
\* descriptor.
C9_Original ==
    \A receiver, supplier \in Records, p \in Names :
       (/\ MixinStep(receiver, supplier)
        /\ ~before[receiver].extensible
        /\ \E q \in Names : /\ HasOwn(before, supplier, q)
                            /\ before[supplier].desc[q].enumerable
                            /\ ~HasOwn(before, receiver, q)
        /\ HasOwn(before, supplier, p) /\ before[supplier].desc[p].enumerable
        /\ HasOwn(before, receiver, p) /\ before[receiver].desc[p].configurable)
       => heap[receiver].desc[p] = before[supplier].desc[p]

\* C9, amended: mixin fails fast. When the receiver is not extensible and
\* lacks some enumerable own name of the supplier, mixin fails; whenever
\* mixin fails, it throws at the first name (in the supplier's key order)
\* whose definition is refused and returns nothing: the names before it
\* have been copied, that name and every name after it are left on the
\* receiver as they were.
C9_MixinFailsFast ==
    \A receiver, supplier \in Records :
       MixinStep(receiver, supplier)
       => /\ (/\ ~before[receiver].extensible
              /\ \E q \in Names : /\ HasOwn(before, supplier, q)
                                  /\ before[supplier].desc[q].enumerable
                                  /\ ~HasOwn(before, receiver, q))
               => last.err # "ok"
          /\ last.err # "ok"
               => LET ks == Keys(before, supplier)
                  IN  /\ last.ret = Thrown
                      /\ \E i \in 1..Len(ks) : ks[i] = last.name
                      /\ last.err = "NotExtensible"
                           => /\ ~before[receiver].extensible
                              /\ ~HasOwn(before, receiver, last.name)
                      /\ \A j \in 1..Len(ks) :
                           IF j < IndexOf(ks, last.name)
                           THEN /\ HasOwn(heap, receiver, ks[j])
                                /\ heap[receiver].desc[ks[j]]
                                     = before[supplier].desc[ks[j]]
                           ELSE /\ HasOwn(heap, receiver, ks[j])
                                     = HasOwn(before, receiver, ks[j])
                                /\ HasOwn(before, receiver, ks[j])
                                     => heap[receiver].desc[ks[j]]
                                          = before[receiver].desc[ks[j]]

\* A mixin into a non-extensible receiver stopped at a name the receiver
\* lacks; a later name of the supplier, which the receiver owns and could
\* redefine, still differs from the supplier's.
C9_Witness ==
    /\ last.op = "mixin" /\ last.err = "NotExtensible" /\ last.ret = Thrown
    /\ ~HasOwn(heap, last.rec, last.name)
    /\ \E j \in 1..Len(Keys(heap, last.arg)) :
          /\ j > IndexOf(Keys(heap, last.arg), last.name)
          /\ HasOwn(heap, last.rec, Keys(heap, last.arg)[j])
          /\ heap[last.rec].desc[Keys(heap, last.arg)[j]].configurable
          /\ heap[last.rec].desc[Keys(heap, last.arg)[j]]
               # heap[last.arg].desc[Keys(heap, last.arg)[j]]

\* C10: mixin(receiver, supplier) leaves the receiver's prototype as it
\* was and, when it completes, returns the receiver; a name that no object
\* on the receiver's chain owned and that the supplier does not own itself
\* (its prototype chain may) is still absent through the receiver afterwards.
C10_MixinKeepsPrototype ==
    \A receiver, supplier \in Records :
       MixinStep(receiver, supplier)
       => /\ heap[receiver].proto = before[receiver].proto
          /\ last.err = "ok" => last.ret = receiver
          /\ \A p \in Names :
               (Owner(before, receiver, p) = Null /\ ~HasOwn(before, supplier, p))
               => /\ Owner(heap, receiver, p) = Null
                  /\ Get(heap, receiver, p, receiver) = Undefined

\* A completed mixin copied a name of the supplier onto the receiver, and a
\* name owned further up the supplier's chain only is absent through the
\* receiver.
C10_Witness ==
    /\ last.op = "mixin" /\ last.err = "ok" /\ last.ret = last.rec
    /\ \E q \in Names : HasOwn(heap, last.arg, q) /\ HasOwn(heap, last.rec, q)
    /\ \E p \in Names :
          /\ Owner(heap, last.arg, p) \notin {Null, last.arg}
          /\ Owner(heap, last.rec, p) = Null
          /\ Get(heap, last.rec, p, last.rec) = Undefined
          /\ Get(heap, last.arg, p, last.arg) # Undefined

\* C11: locking R does not lock its prototype D.  preventExtensions, seal and
\* freeze of R leave every other object as it was; and with R sealed or
\* frozen and D still extensible, Object.defineProperty(D, p, Desc) of a p
\* that D lacks or owns as a configurable property succeeds, D.p is then
\* what Desc says, and R.q reads through R what D.q holds for every q that
\* R does not own (the value of Desc for q = p, when Desc gives one).
C11_LockStopsAtRecord ==
    /\ (last.op \in {"preventExtensions", "seal", "freeze"})
         => \A d \in Records \ {last.rec} : heap[d] = before[d]
    /\ \A r \in Records :
         (/\ last.op = "define"
          /\ before[r].proto = last.rec
          /\ IsSealed(before, r)
          /\ before[last.rec].extensible
          /\ HasOwn(before, last.rec, last.name)
               => before[last.rec].desc[last.name].configurable)
         => /\ last.err = "ok"
            /\ HasOwn(heap, last.rec, last.name)
            /\ \A f \in DOMAIN last.arg :
                 heap[last.rec].desc[last.name][f] = last.arg[f]
            /\ \A q \in Names :
                 ~HasOwn(heap, r, q)
                 => Get(heap, r, q, r) = Get(heap, last.rec, q, r)
            /\ (~HasOwn(heap, r, last.name) /\ Has(last.arg, "value"))
                 => Get(heap, r, last.name, r) = last.arg.value

\* R was frozen, then its prototype D got another value for a name R does
\* not own: R reads the new value.
C11_Witness ==
    /\ last.op = "define" /\ last.err = "ok"
    /\ \E r \in Records :
         /\ heap[r].proto = last.rec
         /\ IsFrozen(before, r) /\ before[r].keys # <<>>
         /\ ~HasOwn(heap, r, last.name)
         /\ Has(last.arg, "value")
         /\ Get(heap, r, last.name, r) = last.arg.value
         /\ Get(before, r, last.name, r) # last.arg.value

\* C12: freezing keeps accessors working.  Object.freeze(R) leaves the
\* getter and setter of every accessor property of R in place; on a frozen
\* R that owns p as an accessor property, R.p still runs the getter (it
\* yields what this._name reads through R), and R.p = v still runs the
\* setter: the assignment is accepted, and every data property of R keeps
\* its descriptor, value included.
C12_FreezeKeepsAccessors ==
    \A r \in Records, p \in Names :
       (/\ last.rec = r
        /\ HasOwn(before, r, p) /\ before[r].desc[p].kind = "accessor")
       => /\ last.op = "freeze"
               => /\ HasOwn(heap, r, p)
                  /\ heap[r].desc[p].kind = "accessor"
                  /\ heap[r].desc[p].get = before[r].desc[p].get
                  /\ heap[r].desc[p].set = before[r].desc[p].set
          /\ (last.op = "get" /\ last.name = p /\ IsFrozen(before, r)
                /\ before[r].desc[p].get = "GetName")
               => /\ last.err = "ok"
                  /\ last.ret = Get(before, r, Backing, r)
          /\ (last.op = "set" /\ last.name = p /\ IsFrozen(before, r)
                /\ before[r].desc[p].set # Undefined)
               => /\ last.err = "ok"
                  /\ \A q \in Names :
                       (HasOwn(before, r, q) /\ before[r].desc[q].kind = "data")
                       => /\ HasOwn(heap, r, q)
                          /\ heap[r].desc[q] = before[r].desc[q]

\* An object with the accessor name (setter: this._name = value) and the
\* data property _name was frozen, then name was assigned another value:
\* the assignment ran the setter and _name kept its value.
C12_Witness ==
    /\ last.op = "set" /\ last.err = "ok" /\ last.was = "Frozen"
    /\ last.name = "name"
    /\ HasOwn(heap, last.rec, "name")
    /\ heap[last.rec].desc["name"].kind = "accessor"
    /\ heap[last.rec].desc["name"].set = "SetName"
    /\ HasOwn(heap, last.rec, Backing)
    /\ heap[last.rec].desc[Backing].value # last.arg
    /\ Get(heap, last.rec, "name", last.rec) = heap[last.rec].desc[Backing].value

\* p read through o is present as a data property holding undefined.
StoresUndefined(h, o, p) ==
    /\ ResolvesToStored(h, o, p)
    /\ h[Owner(h, o, p)].desc[p].value = Undefined

\* C13 as stated: reading a name that no object on the chain owns yields a
\* result different from what reading a present property holding undefined
\* yields.
C13_Original ==
    \A o \in Records, q \in Names :
       (/\ last.op = "get"
        /\ Owner(before, last.rec, last.name) = Null
        /\ StoresUndefined(before, o, q))
       => last.ret # Get(before, o, q, o)

\* C13, amended: reading a name that no object on the chain owns yields
\* undefined without an error, and so does reading a present data property
\* that holds undefined: the result of the read alone does not tell the two
\* apart.
C13_AbsentReadsUndefined ==
    last.op = "get"
    => /\ Owner(before, last.rec, last.name) = Null
            => (last.ret = Undefined /\ last.err = "ok")
       /\ StoresUndefined(before, last.rec, last.name)
            => (last.ret = Undefined /\ last.err = "ok")

\* A name no object on the chain owns was read while another property is
\* present and holds undefined: both read undefined.
C13_Witness ==
    /\ last.op = "get" /\ last.ret = Undefined
    /\ Owner(heap, last.rec, last.name) = Null
    /\ \E o \in Records, q \in Names :
          /\ StoresUndefined(heap, o, q)
          /\ Get(heap, o, q, o) = last.ret

\* The nearest owner of p on the chain of r holds p as a data property that
\* is not writable.
NearestIsReadOnly(h, r, p) ==
    /\ ResolvesToStored(h, r, p)
    /\ ~h[Owner(h, r, p)].desc[p].writable

\* C17 as stated: R.p = v, where the nearest owner of p holds a non-writable
\* data property, raises the not-writable error and changes nothing.
C17_Original ==
    (last.op = "set" /\ NearestIsReadOnly(before, last.rec, last.name))
    => /\ last.err = "NotWritable"
       /\ last.ret = Thrown
       /\ heap = before

\* C17, amended: R.p = v, where the nearest owner of p (R or an object on
\* its chain) holds a non-writable data property, is refused as not
\* writable without an error being raised (the assignment is dropped and
\* evaluates to v); the owner's value is unchanged and no property is
\* created on R.
C17_ReadOnlyAssignmentDropped ==
    (last.op = "set" /\ NearestIsReadOnly(before, last.rec, last.name))
    => /\ last.err = "NotWritable"
       /\ last.ret = last.arg
       /\ heap = before
       /\ HasOwn(heap, last.rec, last.name) = HasOwn(before, last.rec, last.name)
       /\ Get(heap, last.rec, last.name, last.rec)
            = Get(before, last.rec, last.name, last.rec)

\* The prototype of R holds p as a non-writable data property, R does not
\* own p, and R.p = another value was dropped: R still has no own p.
C17_Witness ==
    /\ last.op = "set" /\ last.err = "NotWritable" /\ last.ret = last.arg
    /\ ~HasOwn(heap, last.rec, last.name)
    /\ NearestIsReadOnly(heap, last.rec, last.name)
    /\ Get(heap, last.rec, last.name, last.rec) # last.arg

\* The nearest owner of p on the chain of r holds p as an accessor property.
ResolvesToComputed(h, r, p) ==
    /\ Owner(h, r, p) # Null
    /\ h[Owner(h, r, p)].desc[p].kind = "accessor"

NearestIsWriteOnly(h, r, p) ==
    /\ ResolvesToComputed(h, r, p)
    /\ h[Owner(h, r, p)].desc[p].get = Undefined
    /\ h[Owner(h, r, p)].desc[p].set # Undefined

\* C19 as stated: reading a write-only property fails as not readable
\* instead of yielding a value or what an absent name yields.
C19_Original ==
    (last.op = "get" /\ NearestIsWriteOnly(before, last.rec, last.name))
    => /\ last.err = "NotReadable"
       /\ last.ret = Thrown

\* C19, amended: reading a property whose nearest owner holds an accessor
\* with a setter and no getter raises no error: the read yields undefined,
\* as it does for an absent name, and changes nothing.
C19_WriteOnlyReadsUndefined ==
    (last.op = "get" /\ NearestIsWriteOnly(before, last.rec, last.name))
    => /\ last.err = "ok"
       /\ last.ret = Undefined
       /\ heap = before

\* A write-only accessor that hides a data property further up the chain
\* was read: the read yielded undefined.
C19_Witness ==
    /\ last.op = "get" /\ last.err = "ok" /\ last.ret = Undefined
    /\ NearestIsWriteOnly(heap, last.rec, last.name)
    /\ heap[Owner(heap, last.rec, last.name)].proto # Null
    /\ ResolvesToStored(heap, heap[Owner(heap, last.rec, last.name)].proto, last.name)

\* d is a data property with writable, enumerable and configurable all false.
AllFalse(d) ==
    d.kind = "data" /\ ~d.writable /\ ~d.enumerable /\ ~d.configurable

\* C20: a property created by Object.defineProperty has every flag the
\* descriptor omits set to false: {value: v} alone creates a data property
\* holding v that is not writable, not enumerable and not configurable.
\* Such a property is not changed by an assignment, not changed by a
\* differing redefinition and not deleted: each is refused and leaves
\* everything as it was.
C20_OmittedFlagsFalse ==
    \A r \in Records, p \in Names :
       (last.rec = r /\ last.name = p)
       => /\ (last.op = "define" /\ last.err = "ok" /\ ~HasOwn(before, r, p))
               => /\ HasOwn(heap, r, p)
                  /\ \A f \in {"writable", "enumerable", "configurable"} :
                       f \in DOMAIN heap[r].desc[p]
                       => heap[r].desc[p][f] = Field(last.arg, f, FALSE)
                  /\ (DOMAIN last.arg = {"value"})
                       => /\ AllFalse(heap[r].desc[p])
                          /\ heap[r].desc[p].value = last.arg.value
          /\ (HasOwn(before, r, p) /\ AllFalse(before[r].desc[p]))
               => /\ last.op = "set"
                       => (last.err = "NotWritable" /\ heap = before)
                  /\ last.op = "remove"
                       => (last.err = "NotConfigurable" /\ heap = before)
                  /\ (last.op = "define" /\ Differs(before[r].desc[p], last.arg))
                       => (last.err = "NotConfigurable" /\ heap = before)

\* R.name was created by Object.defineProperty(R, 'name', {value: v}) and
\* then assigned another value: the assignment was refused and the property
\* still holds v with all flags false.
C20_Witness ==
    /\ ops = 2
    /\ last.op = "set" /\ last.rec = "R" /\ last.name = "name"
    /\ last.err = "NotWritable" /\ last.had
    /\ AllFalse(heap["R"].desc["name"])
    /\ heap["R"].desc["name"].value \in Values
    /\ heap["R"].desc["name"].value # last.arg

(***************************************************************************)
(* Constructors: new F(...), and F called as a plain function.             *)
(***************************************************************************)
\* The constructor functions.  Person assigns this.name; Parent is the
\* scope-safe constructor; ReturnsRecord and ReturnsValue assign this.name
\* and then return an object, resp. a value that is not an object.
Ctors == {"Person", "Parent", "ReturnsRecord", "ReturnsValue"}
Guarded == {"Parent"}

\* The global object: this of a function called without new and without a
\* receiver.
Global == "global"

\* F.prototype
Prototype(ctor) ==
    IF ctor = "Person" THEN "Person.prototype"
    ELSE IF ctor = "Parent" THEN "Parent.prototype"
    ELSE IF ctor = "ReturnsRecord" THEN "ReturnsRecord.prototype"
    ELSE "ReturnsValue.prototype"

\* The objects new creates, in the order they are created.
Pool == <<"N1", "N2", "N3", "N4">>

Allocated(h) == {i \in 1..Len(Pool) : Pool[i] \in DOMAIN h}

NextFresh(h) == Pool[Cardinality(Allocated(h)) + 1]

\* A new empty object with prototype proto, added to the heap as n.
Allocate(h, n, proto) ==
    [q \in (DOMAIN h) \cup {n} |-> IF q = n THEN NewObject(proto) ELSE h[q]]

\* o instanceof F: F.prototype is on the prototype chain of o.
RECURSIVE InstanceOf(_, _, _)
InstanceOf(h, o, ctor) ==
    IF h[o].proto = Null THEN FALSE
    ELSE IF h[o].proto = Prototype(ctor) THEN TRUE
    ELSE InstanceOf(h, h[o].proto, ctor)

\* What a call returns: the heap it leaves and the value it returns.
Returned(h, v) == [heap |-> h, ret |-> v]

\* The statements a constructor runs on this (for Parent: the branch taken
\* when this is an instance) and the value its return statement gives.
\* args: [name, child, returns]; returns is the object ReturnsRecord returns.
Body(h, ctor, this, args) ==
    LET named == OrdinarySet(h, this, "name", args.name, this).heap
    IN  IF ctor = "Parent"
        THEN Returned(OrdinarySet(named, this, "child", args.child, this).heap,
                      Undefined)
        ELSE IF ctor = "ReturnsRecord" THEN Returned(named, args.returns)
        ELSE IF ctor = "ReturnsValue" THEN Returned(named, args.name)
        ELSE Returned(named, Undefined)

RECURSIVE Construct(_, _, _)
RECURSIVE Invoke(_, _, _, _)

\* new F(...), handing on whatever F returns, object or not.
ConstructReturningAnything(h, ctor, args) ==
    LET n == NextFresh(h)
        r == Invoke(Allocate(h, n, Prototype(ctor)), ctor, n, args)
    IN  Returned(r.heap, IF r.ret # Undefined THEN r.ret ELSE n)

\* new F(...): a new object with prototype F.prototype is this of F; the
\* result is the object F returns, if F returns an object, else the new one.
Construct(h, ctor, args) ==
    LET n == NextFresh(h)
        r == Invoke(Allocate(h, n, Prototype(ctor)), ctor, n, args)
    IN  Returned(r.heap, IF r.ret \in DOMAIN r.heap THEN r.ret ELSE n)

\* F(...) with the given this, without the instanceof test of the
\* scope-safe constructor.
InvokeUnguarded(h, ctor, this, args) == Body(h, ctor, this, args)

\* F(...) with the given this, taking this for an instance only while it
\* holds no name yet.
InvokeOnUnnamedOnly(h, ctor, this, args) ==
    IF ctor \in Guarded /\ (~InstanceOf(h, this, ctor) \/ HasOwn(h, this, "name"))
    THEN Construct(h, ctor, args)
    ELSE Body(h, ctor, this, args)

\* F(...) with the given this.  The scope-safe constructor returns
\* new F(...) when this is not an instance of F.
Invoke(h, ctor, this, args) ==
    IF ctor \in Guarded /\ ~InstanceOf(h, this, ctor)
    THEN Construct(h, ctor, args)
    ELSE Body(h, ctor, this, args)

\* The arguments of the calls: a name, a child and, for ReturnsRecord, the
\* object it returns (the global object or an object made by new).
NameChild == {<<"Josef", "Pascal">>, <<"Pascal", "Josef">>}

ArgInputs(h, ctor) ==
    {[name |-> nc[1], child |-> nc[2], returns |-> o] :
        nc \in NameChild,
        o \in IF ctor = "ReturnsRecord"
              THEN {Global} \cup {Pool[i] : i \in Allocated(h)}
              ELSE {Null}}

\* The global object and the prototype objects of the constructors.
InitNew ==
    /\ heap = [o \in {Global} \cup {Prototype(c) : c \in Ctors} |-> NewObject(Null)]
    /\ last = NoOp
    /\ before = heap
    /\ ops = 0

Called(op, this, ctor, args, ret) ==
    [op |-> op, rec |-> this, name |-> ctor, arg |-> args, err |-> "ok",
     ret |-> ret, had |-> FALSE, was |-> "Extensible"]

\* new F(name, child)
New(ctor, args) ==
    /\ ops < MaxOps
    /\ Cardinality(Allocated(heap)) < Len(Pool)
    /\ LET r == Construct(heap, ctor, args)
       IN  /\ heap' = r.heap
           /\ last' = Called("new", NextFresh(heap), ctor, args, r.ret)
    /\ before' = heap
    /\ ops' = ops + 1

\* F(name, child) and F.call(this, name, child): this is the global object
\* or the object given.
Call(ctor, this, args) ==
    /\ ops < MaxOps
    /\ Cardinality(Allocated(heap)) < Len(Pool)
    /\ LET r == Invoke(heap, ctor, this, args)
       IN  /\ heap' = r.heap
           /\ last' = Called("call", this, ctor, args, r.ret)
    /\ before' = heap
    /\ ops' = ops + 1

NextNew ==
    \/ \E ctor \in Ctors : \E args \in ArgInputs(heap, ctor) : New(ctor, args)
    \/ \E ctor \in Ctors, this \in DOMAIN heap :
          \E args \in ArgInputs(heap, ctor) : Call(ctor, this, args)

SpecNew == InitNew /\ [][NextNew]_vars

\* The objects the last operation created.
Created == (DOMAIN heap) \ (DOMAIN before)

\* o is an object made for constructor ctor with the given arguments: its
\* prototype is ctor.prototype and it holds what the constructor assigns.
Carries(h, o, ctor, args) ==
    /\ h[o].proto = Prototype(ctor)
    /\ HasOwn(h, o, "name") /\ h[o].desc["name"].value = args.name
    /\ ctor = "Parent"
         => (HasOwn(h, o, "child") /\ h[o].desc["child"].value = args.child)

C16_NewCreatesFresh ==
    last.op = "new"
    => /\ Cardinality(Created) = 1
       /\ \A x \in DOMAIN before : heap[x] = before[x]
       /\ \A n \in Created :
            /\ Carries(heap, n, last.name, last.arg)
            /\ last.ret = IF last.name = "ReturnsRecord" THEN last.arg.returns
                          ELSE n

\* new ReturnsRecord(...) gave the existing object its constructor returns,
\* not the object new created for the call, which exists and carries name.
C16_Witness ==
    /\ last.op = "new" /\ last.name = "ReturnsRecord"
    /\ last.ret = last.arg.returns
    /\ last.ret \in DOMAIN before
    /\ \E n \in Created : n # last.ret /\ HasOwn(heap, n, "name")

\* C21 as stated: Object.preventExtensions(R) leaves R sealed, and on an R
\* that is no longer extensible delete R.p is refused for every own p, a
\* still configurable one included.
C21_Original ==
    /\ last.op = "preventExtensions" => IsSealed(heap, last.rec)
    /\ (/\ last.op = "remove"
        /\ ~before[last.rec].extensible
        /\ HasOwn(before, last.rec, last.name))
         => (last.err # "ok" /\ HasOwn(heap, last.rec, last.name))

\* C21, amended: Object.preventExtensions(R) only makes R non-extensible:
\* the own properties of R and their descriptors stay as they were, so R is
\* not sealed while it owns a configurable property.  On an R that is no
\* longer extensible delete R.p removes an own p that is still configurable
\* and is refused, as not configurable, only for a p that is not.
C21_PreventExtensionsKeepsFlags ==
    /\ last.op = "preventExtensions"
         => /\ ~heap[last.rec].extensible
            /\ heap[last.rec].keys = before[last.rec].keys
            /\ heap[last.rec].desc = before[last.rec].desc
            /\ (\E p \in DOMAIN heap[last.rec].desc : heap[last.rec].desc[p].configurable)
                 => ~IsSealed(heap, last.rec)
    /\ (/\ last.op = "remove"
        /\ ~before[last.rec].extensible
        /\ HasOwn(before, last.rec, last.name))
         => IF before[last.rec].desc[last.name].configurable
            THEN last.err = "ok" /\ ~HasOwn(heap, last.rec, last.name)
            ELSE last.err = "NotConfigurable" /\ heap = before

\* Object.preventExtensions(R), then delete R._name: the property, still
\* configurable, was removed.
C21_Witness ==
    /\ ops = 2
    /\ last.op = "remove" /\ last.err = "ok" /\ last.had
    /\ last.was = "NonExtensible"
    /\ ~heap[last.rec].extensible
    /\ ~HasOwn(heap, last.rec, last.name)

\* C22: once R is sealed (or frozen), no operation adds an own property to
\* R or removes one from it: the own names of R and their order stay the
\* same under defineProperty, assignment, delete and mixin; an assignment to
\* an own writable data property of a sealed R still stores the new value.
C22_SealedKeepsNames ==
    \A r \in Records :
       IsSealed(before, r)
       => /\ DOMAIN heap[r].desc = DOMAIN before[r].desc
          /\ heap[r].keys = before[r].keys
          /\ (/\ last.op = "set" /\ last.rec = r
              /\ HasOwn(before, r, last.name)
              /\ before[r].desc[last.name].kind = "data"
              /\ before[r].desc[last.name].writable)
               => (last.err = "ok" /\ heap[r].desc[last.name].value = last.arg)

\* Object.defineProperty of a name a sealed object with properties does not
\* own was refused: the object has the names it had.
C22_Witness ==
    /\ last.op = "define" /\ last.err = "NotExtensible" /\ ~last.had
    /\ last.was = "Sealed"
    /\ IsSealed(before, last.rec)
    /\ heap[last.rec].keys # <<>>
    /\ heap[last.rec].keys = before[last.rec].keys
    /\ ~HasOwn(heap, last.rec, last.name)

\* What the property p found on owner yields when read through r: the value
\* of a data property; for the getter `return this._name`, the own _name of
\* r when r owns one as a data property.
Yields(h, owner, p, r, ret) ==
    /\ h[owner].desc[p].kind = "data" => ret = h[owner].desc[p].value
    /\ (/\ h[owner].desc[p].kind = "accessor"
        /\ h[owner].desc[p].get = "GetName"
        /\ HasOwn(h, r, Backing)
        /\ h[r].desc[Backing].kind = "data")
         => ret = h[r].desc[Backing].value

\* C23: R.p resolves to the nearest owner of p on the chain of R.  An own p
\* of R decides the read whatever the prototypes hold; else p of the
\* prototype D decides, whatever the prototype of D holds; else p of the
\* prototype of D.  A getter found on the chain runs with this = R.
C23_NearestOwnerDecides ==
    last.op = "get"
    => LET r  == last.rec
           p  == last.name
           d  == before[r].proto
           dd == IF d = Null THEN Null ELSE before[d].proto
       IN  /\ heap = before
           /\ HasOwn(before, r, p) => Yields(before, r, p, r, last.ret)
           /\ (~HasOwn(before, r, p) /\ d # Null /\ HasOwn(before, d, p))
                => Yields(before, d, p, r, last.ret)
           /\ (/\ ~HasOwn(before, r, p) /\ d # Null /\ ~HasOwn(before, d, p)
               /\ dd # Null /\ HasOwn(before, dd, p))
                => Yields(before, dd, p, r, last.ret)

\* R.name was read: R does not own name, its prototype holds the accessor
\* name and hides the data property name further up; the getter returned
\* the _name of R, which differs from the _name of the prototype.
C23_Witness ==
    /\ last.op = "get" /\ last.name = "name"
    /\ ~HasOwn(heap, last.rec, "name")
    /\ heap[last.rec].proto # Null
    /\ HasOwn(heap, heap[last.rec].proto, "name")
    /\ heap[heap[last.rec].proto].desc["name"].kind = "accessor"
    /\ heap[heap[last.rec].proto].desc["name"].get = "GetName"
    /\ heap[heap[last.rec].proto].proto # Null
    /\ HasOwn(heap, heap[heap[last.rec].proto].proto, "name")
    /\ HasOwn(heap, last.rec, Backing)
    /\ last.ret = heap[last.rec].desc[Backing].value
    /\ HasOwn(heap, heap[last.rec].proto, Backing)
    /\ last.ret # heap[heap[last.rec].proto].desc[Backing].value

\* C24: a read R.p and an assignment R.p = v write to no object but R:
\* every other object, the prototypes of R included, has the properties,
\* descriptors and extensibility it had.  An object changes only under an
\* operation applied to it.
C24_OnlyReceiverWritten ==
    \A d \in Records :
       /\ (last.op \in {"get", "set"} /\ d # last.rec) => heap[d] = before[d]
       /\ heap[d] # before[d] => last.rec = d

\* R._name = v replaced the value of R's own _name while the prototype of
\* R owns _name with another value: the prototype is as it was.
C24_Witness ==
    /\ last.op = "set" /\ last.err = "ok" /\ last.had
    /\ before[last.rec].desc[last.name].kind = "data"
    /\ heap[last.rec].desc[last.name].value = last.arg
    /\ before[last.rec].desc[last.name].value # last.arg
    /\ heap[last.rec].proto # Null
    /\ HasOwn(heap, heap[last.rec].proto, last.name)
    /\ heap[heap[last.rec].proto].desc[last.name].kind = "data"
    /\ heap[heap[last.rec].proto].desc[last.name].writable
    /\ heap[heap[last.rec].proto].desc[last.name].value # last.arg
    /\ heap[heap[last.rec].proto] = before[heap[last.rec].proto]

\* p is an own enumerable property of o.
OwnEnumerable(h, o, p) == HasOwn(h, o, p) /\ h[o].desc[p].enumerable

\* C25: mixin(receiver, supplier) copies the own enumerable properties of
\* the supplier and nothing else: a name the supplier does not own as an
\* enumerable property (it owns it as a non-enumerable one, reaches it
\* through its prototype only, or not at all) is on the receiver exactly as
\* before; when mixin completes, every own enumerable property of the
\* supplier is on the receiver with the supplier's descriptor; the supplier
\* is unchanged.
C25_MixinCopiesOwnEnumerable ==
    \A receiver, supplier \in Records :
       MixinStep(receiver, supplier)
       => /\ heap[supplier] = before[supplier]
          /\ \A p \in Names :
               IF OwnEnumerable(before, supplier, p)
               THEN last.err = "ok"
                      => /\ HasOwn(heap, receiver, p)
                         /\ heap[receiver].desc[p] = before[supplier].desc[p]
               ELSE /\ HasOwn(heap, receiver, p) = HasOwn(before, receiver, p)
                    /\ HasOwn(before, receiver, p)
                         => heap[receiver].desc[p] = before[receiver].desc[p]

\* A completed mixin copied an enumerable property and left out a
\* non-enumerable own property of the supplier: the receiver does not own it.
C25_Witness ==
    /\ last.op = "mixin" /\ last.err = "ok"
    /\ \E p \in Names : /\ OwnEnumerable(heap, last.arg, p)
                        /\ HasOwn(heap, last.rec, p)
                        /\ ~HasOwn(before, last.rec, p)
    /\ \E q \in Names : /\ HasOwn(heap, last.arg, q)
                        /\ ~heap[last.arg].desc[q].enumerable
                        /\ ~HasOwn(heap, last.rec, q)

\* C29: the scope-safe constructor called with a this that is one of its
\* instances, an object that existed before the call included, runs on that
\* object: its name and child become the arguments, no object is created,
\* every other object is as before and the call returns undefined.
C29_InstanceIsValidContext ==
    (/\ last.op = "call" /\ last.name \in Guarded
     /\ InstanceOf(before, last.rec, last.name))
    => /\ Created = {}
       /\ Carries(heap, last.rec, last.name, last.arg)
       /\ \A x \in DOMAIN before : x # last.rec => heap[x] = before[x]
       /\ last.ret = Undefined

\* Parent.call(p, name, child) on a p that new Parent made earlier with
\* another name and child: p was overwritten and nothing was created.
C29_Witness ==
    /\ last.op = "call" /\ last.name = "Parent"
    /\ last.rec \in DOMAIN before
    /\ Carries(before, last.rec, "Parent",
               [name |-> last.arg.child, child |-> last.arg.name])
    /\ Carries(heap, last.rec, "Parent", last.arg)
    /\ last.arg.name # last.arg.child
    /\ Created = {}

\* C30: a define, remove or set that is refused, for whatever reason (the
\* object is not extensible, the property is not configurable or not
\* writable, the definition is malformed), changes nothing: the properties,
\* their descriptors and the extensibility of the object operated on, of the
\* objects on its prototype chain and of every other object are those
\* before the call.
C30_RefusedChangesNothing ==
    (last.op \in {"define", "set", "remove"} /\ last.err # "ok")
    => heap = before

\* An assignment was refused because the prototype holds the property
\* read-only; a delete or a definition was refused on a property that is
\* not configurable.
C30_Witness ==
    /\ last.err # "ok"
    /\ \/ /\ last.op = "set" /\ ~last.had
          /\ heap[last.rec].proto # Null
          /\ HasOwn(heap, heap[last.rec].proto, last.name)
          /\ heap[heap[last.rec].proto].desc[last.name].kind = "data"
          /\ ~heap[heap[last.rec].proto].desc[last.name].writable
       \/ /\ last.op \in {"remove", "define"} /\ last.had
          /\ ~heap[last.rec].desc[last.name].configurable

\* C28: an object that Object.seal has sealed, or that was sealed or frozen
\* before the last operation, has no configurable own property after it;
\* an object that Object.freeze has frozen, or that was frozen before the
\* last operation, has in addition no writable own data property.  By
\* induction over the operations this holds in every state from the moment
\* an object is sealed or frozen.
C28_LockedFlagsStay ==
    \A o \in Records :
       /\ ((last.op \in {"seal", "freeze"} /\ last.rec = o)
             \/ Extensibility(before, o) \in {"Sealed", "Frozen"})
          => /\ ~heap[o].extensible
             /\ \A p \in DOMAIN heap[o].desc : ~heap[o].desc[p].configurable
       /\ ((last.op = "freeze" /\ last.rec = o)
             \/ Extensibility(before, o) = "Frozen")
          => \A p \in DOMAIN heap[o].desc :
                heap[o].desc[p].kind = "data" => ~heap[o].desc[p].writable

\* A sealed object with a writable property was assigned to: the value
\* changed, and the object still has no configurable property.
C28_Witness ==
    /\ last.op = "set" /\ last.err = "ok" /\ last.had
    /\ last.was = "Sealed"
    /\ heap[last.rec] # before[last.rec]
    /\ Extensibility(heap, last.rec) = "Sealed"

(***************************************************************************)
(* Private class members.  An immediately invoked function declares        *)
(* let _age and returns the constructor InnerPerson; getAge and getOlder   *)
(* on InnerPerson.prototype close over that one binding.  The environment  *)
(* of the function is the heap entry Closure, its bindings are the         *)
(* properties of that entry.  Ages are numbers, names are strings.         *)
(***************************************************************************)
Closure == "closure"

InnerPrototype == "InnerPerson.prototype"

\* let _age = 25
InitialAge == 25

\* The number the sources assign to the _age property of an instance.
AssignedAge == 30

\* The value of the binding x of the closure.
Binding(h, x) == h[Closure].desc[x].value

\* let x = v and x = v inside the closure.
Bind(h, x, v) == WithProperty(h, Closure, x, AssignedProperty(v))

\* function InnerPerson(name) { this.name = name }
InnerPerson(h, this, name) == OrdinarySet(h, this, "name", name, this).heap

\* new AnotherPerson(name), the new object being n.
NewInnerPerson(h, n, name) ==
    InnerPerson(Allocate(h, n, InnerPrototype), n, name)

\* getAge, returning the _age property of this when this has one.
getAgeOfThis(h, this) ==
    Returned(h, IF HasOwn(h, this, "_age") THEN h[this].desc["_age"].value
                ELSE Binding(h, "_age"))

\* function () { return _age }
getAge(h, this) == Returned(h, Binding(h, "_age"))

\* function () { _age++ }
getOlder(h, this) == Returned(Bind(h, "_age", Binding(h, "_age") + 1), Undefined)

\* o.m(): the function that o.m resolves to through the prototype chain
\* runs with this = o; a value that is no function cannot be called.
CallMethod(h, o, m) ==
    LET f == Get(h, o, m, o)
    IN  IF f = "getAge" THEN getAge(h, o)
        ELSE IF f = "getOlder" THEN getOlder(h, o)
        ELSE Returned(h, "TypeError")

\* The instances of the constructor.
People(h) == {o \in DOMAIN h : h[o].proto = InnerPrototype}

\* What the sources assign to properties of an instance.
OwnInputs == {<<"_age", AssignedAge>>} \cup {<<"name", v>> : v \in Values}

\* The closure, the prototype with its two methods, and john and jane.
InitPrivate ==
    /\ heap =
         LET empty == [o \in {Closure, InnerPrototype} |-> NewObject(Null)]
             aged == Bind(empty, "_age", InitialAge)
             ager == OrdinarySet(aged, InnerPrototype, "getAge", "getAge",
                                 InnerPrototype).heap
             older == OrdinarySet(ager, InnerPrototype, "getOlder", "getOlder",
                                  InnerPrototype).heap
         IN  NewInnerPerson(NewInnerPerson(older, "john", "Josef"), "jane", "Pascal")
    /\ last = NoOp
    /\ before = heap
    /\ ops = 0

\* new AnotherPerson(name)
NewPerson(name) ==
    /\ ops < MaxOps
    /\ Cardinality(Allocated(heap)) < Len(Pool)
    /\ heap' = NewInnerPerson(heap, NextFresh(heap), name)
    /\ last' = Called("new", NextFresh(heap), "AnotherPerson", name, NextFresh(heap))
    /\ before' = heap
    /\ ops' = ops + 1

\* o.getAge()
CallGetAge(o) ==
    /\ ops < MaxOps
    /\ LET r == CallMethod(heap, o, "getAge")
       IN  /\ heap' = r.heap
           /\ last' = Called("getAge", o, "getAge", Undefined, r.ret)
    /\ before' = heap
    /\ ops' = ops + 1

\* o.getOlder()
CallGetOlder(o) ==
    /\ ops < MaxOps
    /\ LET r == CallMethod(heap, o, "getOlder")
       IN  /\ heap' = r.heap
           /\ last' = Called("getOlder", o, "getOlder", Undefined, r.ret)
    /\ before' = heap
    /\ ops' = ops + 1

\* o.p = v
AssignOwn(o, p, v) ==
    /\ ops < MaxOps
    /\ heap' = OrdinarySet(heap, o, p, v, o).heap
    /\ last' = Called("set", o, p, v, v)
    /\ before' = heap
    /\ ops' = ops + 1

NextPrivate ==
    \/ \E name \in Values : NewPerson(name)
    \/ \E o \in People(heap) : CallGetAge(o)
    \/ \E o \in People(heap) : CallGetOlder(o)
    \/ \E o \in People(heap) : \E pv \in OwnInputs : AssignOwn(o, pv[1], pv[2])

SpecPrivate == InitPrivate /\ [][NextPrivate]_vars

\* What o.getAge() returns in heap h.
AgeSeenBy(h, o) == CallMethod(h, o, "getAge").ret

\* C27: the hidden age of the private-class-member pattern is one value
\* for all instances: getAge() returns the same number on every instance;
\* after getOlder() on one instance it returns one more than before on
\* every instance; getAge() itself, an assignment to a property of an
\* instance (_age or name) and the creation of an instance do not change
\* what it returns on any instance.
C27_SharedHiddenAge ==
    /\ \A o1, o2 \in People(heap) : AgeSeenBy(heap, o1) = AgeSeenBy(heap, o2)
    /\ last.op = "getOlder"
         => \A o \in People(heap) : AgeSeenBy(heap, o) = AgeSeenBy(before, o) + 1
    /\ last.op = "getAge"
         => /\ last.ret = AgeSeenBy(before, last.rec)
            /\ heap = before
    /\ last.op \in {"set", "new"}
         => \A o \in People(before) : AgeSeenBy(heap, o) = AgeSeenBy(before, o)

\* john.getOlder() after jane._age = 30: jane.getAge() is one more than
\* before and is not the number assigned to jane._age.
C27_Witness ==
    /\ last.op = "getOlder" /\ last.rec = "john"
    /\ HasOwn(heap, "jane", "_age")
    /\ heap["jane"].desc["_age"].value = AssignedAge
    /\ AgeSeenBy(before, "jane") = InitialAge
    /\ AgeSeenBy(heap, "jane") = InitialAge + 1

(***************************************************************************)
(* Prototypes of constructors (part_001).  The function AnotherPerson is    *)
(* the heap entry Constructor; its property prototype names the object new *)
(* links an instance to.  The sources add a method to that object and then  *)
(* assign an object literal to AnotherPerson.prototype.                     *)
(***************************************************************************)
Constructor == "AnotherPerson"

FirstPrototype == "AnotherPerson.prototype"

Methods == {"sayName", "sayAge"}

\* The object literals assigned to AnotherPerson.prototype: the methods
\* each lists after constructor.
Literals == {<<>>, <<"sayName">>, <<"sayName", "sayAge">>}

\* AnotherPerson.prototype
PrototypeOf(h) == h[Constructor].desc["prototype"].value

\* function AnotherPerson(name) { Object.defineProperty(this, 'name', ...) }
AnotherPerson(h, this, name) ==
    DefineOwnProperty(h, this, "name",
                      [value |-> name, writable |-> TRUE, enumerable |-> TRUE,
                       configurable |-> TRUE]).heap

\* new AnotherPerson(name), the new object being n.
NewAnotherPerson(h, n, name) ==
    AnotherPerson(Allocate(h, n, PrototypeOf(h)), n, name)

\* o.m = function () {...} for each m of methods, in order.
RECURSIVE WithMethods(_, _, _)
WithMethods(h, o, methods) ==
    IF methods = <<>> THEN h
    ELSE WithMethods(OrdinarySet(h, o, Head(methods), Head(methods), o).heap,
                     o, Tail(methods))

\* AnotherPerson.prototype = { constructor: AnotherPerson, ... }, moving
\* the objects linked to the old prototype over to the new one.
AssignPrototypeRelinking(h, n, methods) ==
    LET old == PrototypeOf(h)
        made == WithMethods(OrdinarySet(Allocate(h, n, Null), n, "constructor",
                                        Constructor, n).heap, n, methods)
        set == OrdinarySet(made, Constructor, "prototype", n, Constructor).heap
    IN  [o \in DOMAIN set |->
            IF set[o].proto = old THEN [set[o] EXCEPT !.proto = n] ELSE set[o]]

\* AnotherPerson.prototype = { constructor: AnotherPerson, ... }: the
\* literal is a new object n, and the property prototype of the function
\* is assigned to.
AssignPrototype(h, n, methods) ==
    LET made == WithMethods(OrdinarySet(Allocate(h, n, Null), n, "constructor",
                                        Constructor, n).heap, n, methods)
    IN  OrdinarySet(made, Constructor, "prototype", n, Constructor).heap

\* What the sources read through an instance.
ReadNames == {"name", "constructor"} \cup Methods

\* The function, its first prototype and anotherPerson.
InitPrototype ==
    /\ heap =
         LET empty == [o \in {Constructor, FirstPrototype} |-> NewObject(Null)]
             linked == OrdinarySet(empty, Constructor, "prototype",
                                   FirstPrototype, Constructor).heap
             whole == OrdinarySet(linked, FirstPrototype, "constructor",
                                  Constructor, FirstPrototype).heap
         IN  NewAnotherPerson(whole, "anotherPerson", "Josef")
    /\ last = NoOp
    /\ before = heap
    /\ ops = 0

\* new AnotherPerson(name)
Instantiate(name) ==
    /\ ops < MaxOps
    /\ Cardinality(Allocated(heap)) < Len(Pool)
    /\ heap' = NewAnotherPerson(heap, NextFresh(heap), name)
    /\ last' = Called("new", NextFresh(heap), Constructor, name, NextFresh(heap))
    /\ before' = heap
    /\ ops' = ops + 1

\* AnotherPerson.prototype.m = function () {...}
ExtendPrototype(m) ==
    /\ ops < MaxOps
    /\ heap' = OrdinarySet(heap, PrototypeOf(heap), m, m, PrototypeOf(heap)).heap
    /\ last' = Called("extend", PrototypeOf(heap), m, m, m)
    /\ before' = heap
    /\ ops' = ops + 1

\* AnotherPerson.prototype = {...}
ReplacePrototype(methods) ==
    /\ ops < MaxOps
    /\ Cardinality(Allocated(heap)) < Len(Pool)
    /\ heap' = AssignPrototype(heap, NextFresh(heap), methods)
    /\ last' = Called("replace", Constructor, "prototype", methods, NextFresh(heap))
    /\ before' = heap
    /\ ops' = ops + 1

\* o.p
ReadThrough(o, p) ==
    /\ ops < MaxOps
    /\ heap' = heap
    /\ last' = Called("get", o, p, Undefined, Get(heap, o, p, o))
    /\ before' = heap
    /\ ops' = ops + 1

NextPrototype ==
    \/ \E name \in Values : Instantiate(name)
    \/ \E m \in Methods : ExtendPrototype(m)
    \/ \E methods \in Literals : ReplacePrototype(methods)
    \/ \E o \in (DOMAIN heap) \ {Constructor} : \E p \in ReadNames : ReadThrough(o, p)

SpecPrototype == InitPrototype /\ [][NextPrototype]_vars

\* C26: the prototype link of an object is set when the object is created
\* and no operation changes it afterwards.  A method added to the shared
\* prototype is read through every object already linked to it.  Assigning
\* a new object to AnotherPerson.prototype leaves every existing object,
\* its link and what is read through it as they were; an object created
\* by new is linked to the prototype the constructor has at that moment.
C26_LinkFixedAtCreation ==
    /\ \A o \in DOMAIN before : heap[o].proto = before[o].proto
    /\ last.op = "extend"
         => \A o \in DOMAIN before :
               (before[o].proto = last.rec /\ ~HasOwn(before, o, last.name))
               => Get(heap, o, last.name, o) = last.arg
    /\ last.op = "replace"
         => /\ PrototypeOf(heap) \in Created
            /\ \A o \in (DOMAIN before) \ {Constructor} :
                  /\ heap[o] = before[o]
                  /\ \A p \in ReadNames : Get(heap, o, p, o) = Get(before, o, p, o)
    /\ last.op = "new"
         => /\ Created = {last.rec}
            /\ heap[last.rec].proto = PrototypeOf(before)

\* After a literal with sayAge replaced the prototype, new made an object:
\* it is linked to the literal and reads sayAge, while anotherPerson is
\* still linked to the first prototype and reads no sayAge.
C26_Witness ==
    /\ last.op = "new"
    /\ PrototypeOf(heap) # FirstPrototype
    /\ heap[last.rec].proto = PrototypeOf(heap)
    /\ Get(heap, last.rec, "sayAge", last.rec) = "sayAge"
    /\ heap["anotherPerson"].proto = FirstPrototype
    /\ Get(heap, "anotherPerson", "sayAge", "anotherPerson") = Undefined

====
